---- MODULE Spec2Model ----
(***************************************************************************)
(* Embedding: a client that requests embedding vectors from a remote HTTP  *)
(* service (src/embedding.py).  The client is constructed with a base URL, *)
(* and offers get_embedding(text) and get_embeddings_batch(texts).  Each   *)
(* invocation is one atomic step: it posts at most one request, receives   *)
(* what the service answers, validates the body and returns or raises.     *)
(***************************************************************************)
EXTENDS Integers, Sequences, FiniteSets, TLC

\* ------------------------------------------------------------------ bounds
MaxUrlLen == 3      \* longest base URL given to the constructor (characters)
MaxItems == 3       \* longest "embeddings" list the service answers with
MaxTexts == 3       \* longest input list given to get_embeddings_batch
MaxCalls == 2       \* requests posted through one client before the model stops

\* ------------------------------------------------------- program constants
SingleTimeout == 30
BatchTimeout == 60

\* -------------------------------------------------------------------- data
\* A URL is a sequence of characters; "h" stands for any character but "/".
UrlChars == {"h", "/"}
\* The path appended to the base URL, as one token after its slash.
EmbeddingsPath == <<"/", "embeddings">>

SeqsUpTo(S, n) == UNION {[1..k -> S] : k \in 0..n}

Urls == SeqsUpTo(UrlChars, MaxUrlLen)
DefaultUrl == <<"h", "/">>

Texts == {"t1", "t2"}
TextLists == SeqsUpTo(Texts, MaxTexts)

\* Embedding vectors: sequences of numbers, the empty vector included.
Vectors == {<<>>, <<1>>}

\* One item of the "embeddings" list: a JSON object whose "embedding" key is
\* absent, null, or a vector.
Items ==
  {[kind |-> "absent", embedding |-> <<>>], [kind |-> "null", embedding |-> <<>>]}
    \cup {[kind |-> "vector", embedding |-> v] : v \in Vectors}

\* The parsed body: whether it is JSON at all, and its "embeddings" key:
\* absent, null, or a list of items.
Bodies ==
  {[json |-> FALSE, kind |-> "absent", items |-> <<>>],
   [json |-> TRUE, kind |-> "absent", items |-> <<>>],
   [json |-> TRUE, kind |-> "null", items |-> <<>>]}
    \cup {[json |-> TRUE, kind |-> "list", items |-> l] : l \in SeqsUpTo(Items, MaxItems)}

\* HTTP status codes the service answers with: success, a 3xx without a
\* redirect target, a client error, a server error.
Statuses == {200, 304, 404, 500}

\* What requests.post does: it returns a response, or raises (connection
\* failure, timeout) without one.
Services ==
  {[kind |-> "raises", status |-> 0, body |-> [json |-> FALSE, kind |-> "absent", items |-> <<>>]]}
    \cup {[kind |-> "response", status |-> s, body |-> b] : s \in Statuses, b \in Bodies}

FewServices ==
  {[kind |-> "response", status |-> 200,
    body |-> [json |-> TRUE, kind |-> "list",
              items |-> <<[kind |-> "vector", embedding |-> <<1>>]>>]],
   [kind |-> "response", status |-> 500,
    body |-> [json |-> FALSE, kind |-> "absent", items |-> <<>>]],
   [kind |-> "raises", status |-> 0,
    body |-> [json |-> FALSE, kind |-> "absent", items |-> <<>>]]}

\* ---------------------------------------------------------------- outcomes
\* What an invocation hands its caller: a returned value or a raised error.
\* get_embedding returns `vector`; get_embeddings_batch returns `vectors`.
Outcome(type, msg, expected, got, index, vector, vectors) ==
  [type |-> type, msg |-> msg, expected |-> expected, got |-> got,
   index |-> index, vector |-> vector, vectors |-> vectors]

NoOutcome == Outcome("none", "", -1, -1, -1, <<>>, <<>>)
ReturnVector(v) == Outcome("return", "", -1, -1, -1, v, <<>>)
ReturnVectors(vs) == Outcome("return", "", -1, -1, -1, <<>>, vs)
Raise(type) == Outcome(type, "", -1, -1, -1, <<>>, <<>>)
\* ValueError("Invalid response payload: missing 'embeddings'")
MissingEmbeddings == Outcome("ValueError", "missing 'embeddings'", -1, -1, -1, <<>>, <<>>)
\* ValueError("Invalid response payload: missing 'embedding'")
MissingEmbedding == Outcome("ValueError", "missing 'embedding'", -1, -1, -1, <<>>, <<>>)
\* ValueError(f"Response length mismatch: expected {len(texts)}, got {len(items)}")
LengthMismatch(expected, got) ==
  Outcome("ValueError", "length mismatch", expected, got, -1, <<>>, <<>>)
\* ValueError(f"Missing 'embedding' in response item {i}")
MissingItem(i) == Outcome("ValueError", "missing item 'embedding'", -1, -1, i, <<>>, <<>>)

NoRequest == [sent |-> FALSE, url |-> <<>>, inputs |-> <<>>, timeout |-> 0]

\* ------------------------------------------------------------------- state
VARIABLES
  raw_url,      \* the base_url argument the client was constructed with
  base_url,     \* self.base_url
  service,      \* how the remote service answers a request
  call_count,   \* requests.post calls made so far
  last          \* the last invocation: operation, input, request, outcome

vars == <<raw_url, base_url, service, call_count, last>>

\* ----------------------------------------------------------------- helpers
\* str.rstrip("/"): drops every trailing "/".
RECURSIVE rstrip(_)
rstrip_once(s) ==
  IF Len(s) > 0 /\ s[Len(s)] = "/" THEN SubSeq(s, 1, Len(s) - 1) ELSE s
rstrip(s) ==
  IF Len(s) > 0 /\ s[Len(s)] = "/" THEN rstrip(SubSeq(s, 1, Len(s) - 1)) ELSE s

\* f"{self.base_url}/embeddings"
endpoint(url) == url \o EmbeddingsPath

\* requests.post: one outbound call.
post_on_failure_twice(count, answer) ==
  IF answer.kind = "raises" \/ answer.status >= 400 THEN count + 2 ELSE count + 1
requests_post(count, answer) == count + 1

\* response.raise_for_status(): raises HTTPError for a 4xx or 5xx status,
\* and for no other.
raise_for_status(status) == 400 <= status /\ status < 600

\* data.get("embeddings"): None when the key is absent or null.
data_get_embeddings(body) ==
  IF body.kind = "list"
    THEN [none |-> FALSE, list |-> body.items]
    ELSE [none |-> TRUE, list |-> <<>>]

\* `not items`: None and the empty list are falsy.
not_items(items) == items.none \/ Len(items.list) = 0

\* item.get("embedding"): None when the key is absent or null.
item_get_embedding(item) ==
  IF item.kind = "vector"
    THEN [none |-> FALSE, value |-> item.embedding]
    ELSE [none |-> TRUE, value |-> <<>>]

\* `if not texts`
not_texts_never(texts) == FALSE
not_texts(texts) == Len(texts) = 0

\* get_embedding, after response.json(): the first item decides.
parse_single_last(items) ==
  IF not_items(items) THEN MissingEmbeddings
  ELSE LET embedding_vector == item_get_embedding(items.list[Len(items.list)])
       IN IF embedding_vector.none THEN MissingEmbedding
          ELSE ReturnVector(embedding_vector.value)
parse_single(items) ==
  IF not_items(items) THEN MissingEmbeddings
  ELSE LET embedding_vector == item_get_embedding(items.list[1])
       IN IF embedding_vector.none THEN MissingEmbedding
          ELSE ReturnVector(embedding_vector.value)

\* The extraction loop of get_embeddings_batch: items i.. of the list, with
\* `embeddings` collected so far.  Python's index of item i is i - 1.
RECURSIVE extract(_, _, _)
RECURSIVE extract_prepend(_, _, _)
RECURSIVE extract_one_based(_, _, _)
extract_prepend(list, i, embeddings) ==
  IF i > Len(list) THEN ReturnVectors(embeddings)
  ELSE LET embedding_vector == item_get_embedding(list[i])
       IN IF embedding_vector.none THEN MissingItem(i - 1)
          ELSE extract_prepend(list, i + 1, <<embedding_vector.value>> \o embeddings)
extract_one_based(list, i, embeddings) ==
  IF i > Len(list) THEN ReturnVectors(embeddings)
  ELSE LET embedding_vector == item_get_embedding(list[i])
       IN IF embedding_vector.none THEN MissingItem(i)
          ELSE extract_one_based(list, i + 1, Append(embeddings, embedding_vector.value))
extract(list, i, embeddings) ==
  IF i > Len(list) THEN ReturnVectors(embeddings)
  ELSE LET embedding_vector == item_get_embedding(list[i])
       IN IF embedding_vector.none THEN MissingItem(i - 1)
          ELSE extract(list, i + 1, Append(embeddings, embedding_vector.value))

\* get_embeddings_batch, after response.json(): the three validations in
\* the order the code applies them, then the extraction.
parse_batch_no_items_check(items, n) ==
  IF Len(items.list) # n THEN LengthMismatch(n, Len(items.list))
  ELSE extract(items.list, 1, <<>>)
parse_batch_no_length_check(items, n) ==
  IF not_items(items) THEN MissingEmbeddings
  ELSE extract(items.list, 1, <<>>)
parse_batch_extract_first(items, n) ==
  IF not_items(items) THEN MissingEmbeddings
  ELSE LET r == extract(items.list, 1, <<>>)
       IN IF r.type # "return" THEN r
          ELSE IF Len(items.list) # n THEN LengthMismatch(n, Len(items.list))
          ELSE r
parse_batch(items, n) ==
  IF not_items(items) THEN MissingEmbeddings
  ELSE IF Len(items.list) # n THEN LengthMismatch(n, Len(items.list))
  ELSE extract(items.list, 1, <<>>)

\* From requests.post to the JSON body, common to both operations: the
\* transport's own failure, then the status check, then response.json().
\* NoOutcome when the body was parsed; the raised error otherwise.
before_body(answer) ==
  IF answer.kind = "raises" THEN Raise("ConnectionError")
  ELSE IF raise_for_status(answer.status) THEN Raise("HTTPError")
  ELSE IF ~answer.body.json THEN Raise("JSONDecodeError")
  ELSE NoOutcome

get_embedding_outcome(answer) ==
  LET early == before_body(answer)
  IN IF early.type # "none" THEN early
     ELSE parse_single(data_get_embeddings(answer.body))

get_embeddings_batch_outcome(answer, texts) ==
  LET early == before_body(answer)
  IN IF early.type # "none" THEN early
     ELSE parse_batch(data_get_embeddings(answer.body), Len(texts))

\* ----------------------------------------------------------------- actions
\* Embedding.__init__ has run: base_url is normalised, nothing was posted.
Constructed ==
  /\ base_url = rstrip(raw_url)
  /\ call_count = 0
  /\ last = [op |-> "none", texts |-> <<>>, before |-> 0,
             request |-> NoRequest, outcome |-> NoOutcome]

Init ==
  /\ raw_url = DefaultUrl
  /\ service \in Services
  /\ Constructed

InitUrl ==
  /\ raw_url \in Urls
  /\ service \in FewServices
  /\ Constructed

get_embedding(text) ==
  /\ call_count < MaxCalls
  /\ call_count' = requests_post(call_count, service)
  /\ last' = [op |-> "get_embedding", texts |-> <<text>>, before |-> call_count,
              request |-> [sent |-> TRUE, url |-> endpoint(base_url),
                           inputs |-> <<text>>, timeout |-> SingleTimeout],
              outcome |-> get_embedding_outcome(service)]
  /\ UNCHANGED <<raw_url, base_url, service>>

get_embeddings_batch(texts) ==
  /\ call_count < MaxCalls
  /\ IF not_texts(texts)
       THEN /\ call_count' = call_count
            /\ last' = [op |-> "get_embeddings_batch", texts |-> texts,
                        before |-> call_count, request |-> NoRequest,
                        outcome |-> ReturnVectors(<<>>)]
       ELSE /\ call_count' = requests_post(call_count, service)
            /\ last' = [op |-> "get_embeddings_batch", texts |-> texts,
                        before |-> call_count,
                        request |-> [sent |-> TRUE, url |-> endpoint(base_url),
                                     inputs |-> texts, timeout |-> BatchTimeout],
                        outcome |-> get_embeddings_batch_outcome(service, texts)]
  /\ UNCHANGED <<raw_url, base_url, service>>

Next ==
  \/ \E text \in Texts : get_embedding(text)
  \/ \E texts \in TextLists : get_embeddings_batch(texts)

Spec == Init /\ [][Next]_vars
SpecUrl == InitUrl /\ [][Next]_vars

\* ------------------------------------------------------------- vocabulary
Single == last.op = "get_embedding"
Batch == last.op = "get_embeddings_batch"
NumTexts == Len(last.texts)
\* The service answers with a response (it does not fail the transport).
Answers == service.kind = "response"
\* The invocation posted a request and got a response back.
Received == last.request.sent /\ Answers
SuccessStatus == service.status \in 200..299
\* The body is a JSON object whose "embeddings" is a list.
HasList == service.body.json /\ service.body.kind = "list"
ResponseItems == service.body.items
\* The "embeddings" field is missing, null or empty.
EmbeddingsMissing ==
  /\ service.body.json
  /\ \/ service.body.kind \in {"absent", "null"}
     \/ service.body.kind = "list" /\ Len(service.body.items) = 0
Lacks(item) == item.kind # "vector"
LacksAt(k) == k \in 1..Len(ResponseItems) /\ Lacks(ResponseItems[k])
LowestLacking(k) == LacksAt(k) /\ \A j \in 1..(k - 1) : ~Lacks(ResponseItems[j])

\* ------------------------------------------------------------------ claims
\* C1: with N >= 1 input texts, a success status and a response list of
\* exactly N items each carrying a non-null embedding, get_embeddings_batch
\* returns N vectors, the i-th being the i-th item's embedding.
C1_BatchReturnsAllInOrder ==
  (/\ Batch /\ NumTexts >= 1 /\ Received /\ SuccessStatus /\ HasList
   /\ Len(ResponseItems) = NumTexts
   /\ \A i \in 1..Len(ResponseItems) : ~Lacks(ResponseItems[i]))
  => /\ last.outcome.type = "return"
     /\ Len(last.outcome.vectors) = NumTexts
     /\ \A i \in 1..NumTexts : last.outcome.vectors[i] = ResponseItems[i].embedding

C1_Witness ==
  /\ Batch /\ NumTexts >= 2 /\ Received /\ SuccessStatus /\ HasList
  /\ Len(ResponseItems) = NumTexts
  /\ \A i \in 1..Len(ResponseItems) : ~Lacks(ResponseItems[i])
  /\ ResponseItems[1].embedding # ResponseItems[2].embedding
  /\ last.outcome.type = "return"

\* C2: get_embeddings_batch with an empty input list returns an empty list
\* and posts no request, whatever the service would have answered.
C2_EmptyBatchShortCircuits ==
  (Batch /\ NumTexts = 0)
  => /\ last.outcome = ReturnVectors(<<>>)
     /\ ~last.request.sent
     /\ call_count = last.before

C2_Witness ==
  /\ Batch /\ NumTexts = 0
  /\ Answers /\ service.status = 500
  /\ last.outcome = ReturnVectors(<<>>)
  /\ call_count = last.before

\* C3 as stated: a response list of N items, N different from the number of
\* input texts, makes get_embeddings_batch fail with a length mismatch
\* citing both counts.
C3_AnyCountMismatchReported ==
  (Batch /\ Answers /\ SuccessStatus /\ HasList /\ Len(ResponseItems) # NumTexts)
  => last.outcome = LengthMismatch(NumTexts, Len(ResponseItems))

\* C3 amended: on a success status, with a non-empty input and a response
\* list of N >= 1 items, N different from the number of input texts,
\* get_embeddings_batch fails with a length mismatch whose expected count is
\* the number of texts and whose actual count is N; no vectors are returned.
C3_NonEmptyCountMismatchReported ==
  (/\ Batch /\ NumTexts >= 1 /\ Received /\ SuccessStatus /\ HasList
   /\ Len(ResponseItems) >= 1 /\ Len(ResponseItems) # NumTexts)
  => last.outcome = LengthMismatch(NumTexts, Len(ResponseItems))

C3_Witness ==
  /\ Batch /\ NumTexts = 2 /\ Received /\ SuccessStatus /\ HasList
  /\ Len(ResponseItems) = 3
  /\ last.outcome.type = "ValueError"
  /\ last.outcome.expected = 2 /\ last.outcome.got = 3

\* C4 as stated: a response whose "embeddings" is missing, null or empty
\* makes get_embedding and get_embeddings_batch fail with "missing
\* embeddings", for any input.
C4_MissingEmbeddingsForAnyInput ==
  ((Single \/ Batch) /\ Answers /\ SuccessStatus /\ EmbeddingsMissing)
  => last.outcome = MissingEmbeddings

\* C4 amended: on a success status, a received response whose "embeddings"
\* is missing, null or empty makes get_embedding (any text) and
\* get_embeddings_batch (any non-empty input) fail with "missing embeddings".
C4_MissingEmbeddingsWhenReceived ==
  ((Single \/ Batch) /\ Received /\ SuccessStatus /\ EmbeddingsMissing)
  => last.outcome = MissingEmbeddings

C4_Witness ==
  /\ Batch /\ NumTexts >= 1 /\ Received /\ SuccessStatus
  /\ HasList /\ Len(ResponseItems) = 0
  /\ last.outcome = MissingEmbeddings

\* C5 as stated: a response whose item at index k lacks "embedding" makes
\* get_embeddings_batch fail with a validation error naming index k.
C5_AnyLackingIndexNamed ==
  (Batch /\ Received /\ SuccessStatus /\ HasList)
  => \A k \in 1..Len(ResponseItems) :
       LacksAt(k) => last.outcome = MissingItem(k - 1)

\* C5 amended: on a success status, with as many response items as input
\* texts, get_embeddings_batch fails with a validation error naming the
\* lowest index k whose item lacks "embedding".
C5_LowestLackingIndexNamed ==
  (Batch /\ Received /\ SuccessStatus /\ HasList /\ Len(ResponseItems) = NumTexts)
  => \A k \in 1..Len(ResponseItems) :
       LowestLacking(k) => last.outcome = MissingItem(k - 1)

C5_Witness ==
  /\ Batch /\ Received /\ SuccessStatus /\ HasList
  /\ Len(ResponseItems) = NumTexts
  /\ LowestLacking(2) /\ LacksAt(3)
  /\ last.outcome = MissingItem(1)

\* C6: a response with a non-success status (any status outside 2xx) makes
\* both operations fail with the transport error, never with a validation
\* error and never with a result, whatever the body contains.
C6_NonSuccessIsTransportError ==
  ((Single \/ Batch) /\ Received /\ ~SuccessStatus)
  => last.outcome = Raise("HTTPError")

\* What the status check does guarantee: a response with a 4xx or 5xx status
\* makes both operations fail with the transport error, whatever the body
\* contains; the status check precedes the parsing of the body.
C6_ErrorStatusIsTransportError ==
  ((Single \/ Batch) /\ Received /\ service.status \in 400..599)
  => last.outcome = Raise("HTTPError")

ErrorStatusReached ==
  /\ Batch /\ Received /\ service.status = 404
  /\ HasList /\ Len(ResponseItems) = NumTexts
  /\ last.outcome = Raise("HTTPError")

\* C7: every get_embedding, and every get_embeddings_batch with a non-empty
\* input, posts exactly one request on every path: return, transport
\* failure, error status, undecodable body, any validation failure.
C7_ExactlyOneCall ==
  (Single \/ (Batch /\ NumTexts >= 1))
  => /\ last.request.sent
     /\ call_count = last.before + 1

C7_Witness ==
  /\ Batch /\ NumTexts = 3 /\ last.before = 1
  /\ last.outcome.type = "HTTPError"
  /\ call_count = 2

\* C8: on a success status with a non-empty "embeddings" list,
\* get_embedding returns the first item's embedding if present and fails
\* with "missing embedding" if the first item lacks it; later items and the
\* number of items do not matter.
C8_SingleUsesFirstItem ==
  (Single /\ Received /\ SuccessStatus /\ HasList /\ Len(ResponseItems) >= 1)
  => IF Lacks(ResponseItems[1])
       THEN last.outcome = MissingEmbedding
       ELSE last.outcome = ReturnVector(ResponseItems[1].embedding)

C8_Witness ==
  /\ Single /\ Received /\ SuccessStatus /\ HasList
  /\ Len(ResponseItems) = 3
  /\ ~Lacks(ResponseItems[1]) /\ Lacks(ResponseItems[2])
  /\ ~Lacks(ResponseItems[3])
  /\ ResponseItems[3].embedding # ResponseItems[1].embedding
  /\ last.outcome = ReturnVector(ResponseItems[1].embedding)

\* C9: the stored base URL is the constructor's URL without its trailing
\* slashes: it never ends in a slash, what was cut is slashes only, a URL
\* without a trailing slash is stored unchanged; and every request targets
\* that URL followed by /embeddings.
C9_BaseUrlNormalised ==
  /\ Len(base_url) <= Len(raw_url)
  /\ base_url = SubSeq(raw_url, 1, Len(base_url))
  /\ \A i \in (Len(base_url) + 1)..Len(raw_url) : raw_url[i] = "/"
  /\ (Len(base_url) > 0 => base_url[Len(base_url)] # "/")
  /\ last.request.sent =>
       /\ Len(last.request.url) = Len(base_url) + 2
       /\ SubSeq(last.request.url, 1, Len(base_url)) = base_url
       /\ last.request.url[Len(base_url) + 1] = "/"
       /\ last.request.url[Len(base_url) + 2] = "embeddings"

C9_Witness ==
  /\ Len(raw_url) = 3 /\ raw_url[2] = "/" /\ raw_url[3] = "/"
  /\ base_url = <<"h">>
  /\ last.request.sent
  /\ last.request.url = <<"h", "/", "embeddings">>

\* C10: on a success status with a non-empty input, get_embeddings_batch
\* reports the first violation in a fixed order: missing embeddings, then
\* length mismatch, then the lowest index lacking "embedding"; it returns
\* only when none applies, and then one vector per input text.
C10_ValidationOrder ==
  (Batch /\ NumTexts >= 1 /\ Received /\ SuccessStatus /\ service.body.json)
  => IF EmbeddingsMissing
       THEN last.outcome = MissingEmbeddings
     ELSE IF Len(ResponseItems) # NumTexts
       THEN last.outcome = LengthMismatch(NumTexts, Len(ResponseItems))
     ELSE IF \E k \in 1..Len(ResponseItems) : LacksAt(k)
       THEN \E k \in 1..Len(ResponseItems) :
              LowestLacking(k) /\ last.outcome = MissingItem(k - 1)
     ELSE /\ last.outcome.type = "return"
          /\ Len(last.outcome.vectors) = NumTexts

C10_Witness ==
  /\ Batch /\ NumTexts = 2 /\ Received /\ SuccessStatus /\ HasList
  /\ Len(ResponseItems) = 3 /\ LacksAt(1)
  /\ last.outcome = LengthMismatch(2, 3)

====
